---- MODULE Spec2Model ----
(***************************************************************************)
(* UTXO indexer: block ingestion (BlockService.processBlock), rollback     *)
(* (RollbackService.rollbackToHeight) and the UTXO repository they run on. *)
(*                                                                         *)
(* Strings are sequences of one-character strings.  A store is the set of  *)
(* its rows; a row carries the columns the services read or write.         *)
(***************************************************************************)
EXTENDS Integers, Sequences, FiniteSets, TLC

VARIABLES
    impl,    \* which IUTXORepository is bound: "pg" (container.ts) or "mem" (test container)
    utxos,   \* the rows of the utxos table / the entries of the in-memory map
    pc,      \* position of the one write request: "idle", "called", "returned"
    req,     \* the request being served
    res,     \* the Result the service returned
    pre,     \* the store as it stood when the service was called
    snaps,   \* snaps[h]: the store right after the block of height h was accepted
    track,   \* TRUE while the run is: only accepted blocks, each raising the tip by one
    gate,    \* the MutexService's mutex: [value, queue]
    writers, \* writers[w]: the handler run of the w-th POST /blocks or /rollback
    reader,  \* the handler run of one GET /balance/:address
    order,   \* the writers in the order in which they acquired the gate
    asked    \* the writers holding or waiting for the gate, in the order of their acquire calls

vars == <<impl, utxos, pc, req, res, pre, snaps, track, gate, writers, reader, order,
          asked>>

\* what the concurrent handlers work on
gateVars == <<gate, writers, reader, order, asked>>

-----------------------------------------------------------------------------
(* Bounds of the model                                                     *)

MaxHeight == 3      \* blocks are submitted with height 0..MaxHeight
MaxTxs == 2         \* transactions per submitted block
MaxWriters == 3     \* write requests served concurrently

-----------------------------------------------------------------------------
(* Strings                                                                 *)

TxIdLength == 64    \* padTxId: padEnd(64, "0").substring(0, 64)
CharLength == 64    \* schema: char("txid", { length: 64 }), char("spent_txid", ...)

Min(a, b) == IF a < b THEN a ELSE b

Repeat(c, n) == [i \in 1..n |-> c]

\* String.prototype.padEnd(width, fill) for a one-character fill
padEnd(s, width, fill) ==
    IF Len(s) >= width THEN s ELSE s \o Repeat(fill, width - Len(s))

\* String.prototype.substring(0, end)
substring(s, end) == SubSeq(s, 1, Min(Len(s), end))

padTxId(txId) == substring(padEnd(txId, TxIdLength, "0"), TxIdLength)

\* /^0+$/.test(txId)
isCoinbaseInput(txId) ==
    /\ Len(txId) >= 1
    /\ \A i \in 1..Len(txId) : txId[i] = "0"

Digit(d) == CASE d = 0 -> "0" [] d = 1 -> "1" [] d = 2 -> "2" [] d = 3 -> "3"
              [] d = 4 -> "4" [] d = 5 -> "5" [] d = 6 -> "6" [] d = 7 -> "7"
              [] d = 8 -> "8" [] d = 9 -> "9"

RECURSIVE decimalString(_)
\* `${block.height}` for a non-negative integer
decimalString(n) ==
    IF n < 10 THEN <<Digit(n)>> ELSE decimalString(n \div 10) \o <<Digit(n % 10)>>

RECURSIVE join(_)
\* Array.prototype.join("")
join(strs) == IF strs = <<>> THEN <<>> ELSE Head(strs) \o join(Tail(strs))

\* createHash("sha256").update(input).digest("hex"): SHA-256 as the injective
\* function it is taken to be, the digest tagged with the input it was taken of
sha256hex(input) == <<"sha256:">> \o input

\* number of characters left once trailing blanks are dropped
RECURSIVE rtrimLen(_)
rtrimLen(s) ==
    IF s = <<>> THEN 0
    ELSE IF s[Len(s)] = " " THEN rtrimLen(SubSeq(s, 1, Len(s) - 1)) ELSE Len(s)

rtrim(s) == SubSeq(s, 1, rtrimLen(s))

-----------------------------------------------------------------------------
(* The UTXO repository: UTXORepository over PostgreSQL ("pg") and           *)
(* InMemoryUTXORepository ("mem")                                          *)

NULL == <<"NULL">>      \* a null column (no string of characters equals it)
NOW == <<"now">>        \* new Date()

\* What a char(CharLength) column holds once `s` is assigned to it: blank-padded
\* to the column's length; blanks beyond the length are cut off.
bpchar(s) == padEnd(substring(s, CharLength), CharLength, " ")

\* Assigning `s` to a char(CharLength) column raises "value too long" when
\* characters other than blanks lie beyond the column's length.
tooLong(s) == rtrimLen(s) > CharLength

\* eq(column, param) on a char(n) column: trailing blanks are insignificant
bpcharEq(a, b) == rtrim(a) = rtrim(b)

\* eq(utxos.txid, txId) / the map key `${txId}:${vout}`
txidEq(kind, column, txId) ==
    IF kind = "pg" THEN bpcharEq(column, txId) ELSE column = txId

\* the row a NewUTXO becomes (id, scriptPubkey and createdAt are not modelled)
newRow(kind, utxo) ==
    [txid        |-> IF kind = "pg" THEN bpchar(utxo.txid) ELSE utxo.txid,
     vout        |-> utxo.vout,
     address     |-> utxo.address,
     value       |-> utxo.value,
     blockHeight |-> utxo.blockHeight,
     spent       |-> utxo.spent,
     spentTxid   |-> NULL,
     spentAt     |-> NULL]

\* insert(utxo): the unique index utxos_txid_vout_unique makes a duplicate
\* (txid, vout) throw in PostgreSQL; Map.set replaces the entry in memory.
insert(kind, db, utxo) ==
    LET same == {r \in db : txidEq(kind, r.txid, utxo.txid) /\ r.vout = utxo.vout}
    IN  IF kind = "pg"
        THEN IF tooLong(utxo.txid) \/ same # {}
             THEN [error |-> "DatabaseError", db |-> db]
             ELSE [error |-> "Ok", db |-> db \cup {newRow(kind, utxo)}]
        ELSE [error |-> "Ok", db |-> (db \ same) \cup {newRow(kind, utxo)}]

\* findByTxIdsAndVouts without eq(utxos.spent, false)
findByTxIdsAndVouts_AnySpent(kind, db, refs) ==
    {r \in db : \E i \in 1..Len(refs) :
                    txidEq(kind, r.txid, refs[i].txId) /\ r.vout = refs[i].vout}

\* findByTxIdsAndVouts(refs): the unspent rows some ref names
findByTxIdsAndVouts(kind, db, refs) ==
    {r \in db : /\ ~r.spent
                /\ \E i \in 1..Len(refs) :
                      txidEq(kind, r.txid, refs[i].txId) /\ r.vout = refs[i].vout}

\* markAsSpent(txId, vout, spentTxid)
markAsSpent(kind, db, txId, vout, spentTxid) ==
    LET hit == {r \in db : txidEq(kind, r.txid, txId) /\ r.vout = vout}
    IN  IF hit = {} \/ \E r \in hit : r.spent
        THEN [error |-> "UTXONotFound", db |-> db]
        ELSE IF kind = "pg" /\ tooLong(spentTxid)
        THEN [error |-> "DatabaseError", db |-> db]
        ELSE [error |-> "Ok",
              db |-> (db \ hit) \cup
                     {[r EXCEPT !.spent = TRUE,
                                !.spentTxid = IF kind = "pg" THEN bpchar(spentTxid)
                                              ELSE spentTxid,
                                !.spentAt = NOW] : r \in hit}]

\* getMaxBlockHeight(): max(block_height), 0 for an empty table
getMaxBlockHeight(db) ==
    IF db = {} THEN 0
    ELSE CHOOSE h \in {r.blockHeight : r \in db} :
             \A r \in db : r.blockHeight <= h

\* findUTXOsByBlockHeight with gte in place of gt
findUTXOsByBlockHeight_AtOrAbove(db, minHeight) == {r \in db : r.blockHeight >= minHeight}

\* findUTXOsByBlockHeight(minHeight): rows with block_height > minHeight
findUTXOsByBlockHeight(db, minHeight) == {r \in db : r.blockHeight > minHeight}

\* unmarkAsSpent resetting the spent flag and leaving spent_txid and spent_at
unmarkAsSpent_KeepsStamp(kind, db, txIds) ==
    LET hit == {r \in db : /\ r.spent
                           /\ r.spentTxid # NULL
                           /\ \E t \in txIds : txidEq(kind, r.spentTxid, t)}
    IN  (db \ hit) \cup {[r EXCEPT !.spent = FALSE] : r \in hit}

\* unmarkAsSpent(txIds): rows spent by one of txIds become unspent
unmarkAsSpent(kind, db, txIds) ==
    LET hit == {r \in db : /\ r.spent
                           /\ r.spentTxid # NULL
                           /\ \E t \in txIds : txidEq(kind, r.spentTxid, t)}
    IN  (db \ hit) \cup
        {[r EXCEPT !.spent = FALSE, !.spentTxid = NULL, !.spentAt = NULL] : r \in hit}

\* the delete taken to remove the rows of the target height as well
deleteUTXOsByBlockHeight_AtOrAbove(db, minHeight) == {r \in db : ~(r.blockHeight >= minHeight)}

\* deleteUTXOsByBlockHeight(minHeight): delete rows with block_height > minHeight
deleteUTXOsByBlockHeight(db, minHeight) == {r \in db : ~(r.blockHeight > minHeight)}

RECURSIVE sumValues(_)
\* reduce((sum, x) => sum + x.value, 0) over a list of outputs or rows
sumValues(xs) == IF xs = <<>> THEN 0 ELSE Head(xs).value + sumValues(Tail(xs))

\* getBalanceByAddress(address): SUM(value) WHERE address = a AND spent = FALSE
RECURSIVE sumRows(_)
sumRows(rows) ==
    IF rows = {} THEN 0
    ELSE LET r == CHOOSE x \in rows : TRUE IN r.value + sumRows(rows \ {r})

\* getBalanceByAddress without eq(utxos.spent, false)
getBalanceByAddress_AnySpent(db, address) ==
    sumRows({r \in db : r.address = address})

getBalanceByAddress(db, address) ==
    sumRows({r \in db : r.address = address /\ ~r.spent})

-----------------------------------------------------------------------------
(* BlockService                                                            *)

NONE == 0 - 1       \* a field the error does not carry

\* a Result: ok(undefined) is kind "Ok"; err(e) carries e's kind and fields
result(kind, db, height, currentHeight) ==
    [error |-> kind, db |-> db, height |-> height, currentHeight |-> currentHeight]

\* validateHeight turning down only heights at or below the tip
validateHeight_NotBelow(db, height) ==
    IF height < getMaxBlockHeight(db) + 1
    THEN result("InvalidBlockHeight", db, height, getMaxBlockHeight(db))
    ELSE result("Ok", db, NONE, NONE)

\* validateHeight(height)
validateHeight(db, height) ==
    IF height # getMaxBlockHeight(db) + 1
    THEN result("InvalidBlockHeight", db, height, getMaxBlockHeight(db))
    ELSE result("Ok", db, NONE, NONE)

hasCoinbaseInputs(tx) ==
    \E i \in 1..Len(tx.inputs) : isCoinbaseInput(tx.inputs[i].txId)

hasRegularInputs(tx) ==
    \E i \in 1..Len(tx.inputs) : ~isCoinbaseInput(tx.inputs[i].txId)

\* validateCoinbaseTransactions without the check for mixed inputs
validateCoinbaseTransactions_NoMixCheck(transactions) ==
    \A k \in 1..Len(transactions) :
        LET tx == transactions[k]
        IN  (~hasCoinbaseInputs(tx) /\ Len(tx.inputs) = 0)
                  => sumValues(tx.outputs) = 0

\* validateCoinbaseTransactions without the check of transactions with no inputs
validateCoinbaseTransactions_NoZeroInputCheck(transactions) ==
    \A k \in 1..Len(transactions) :
        LET tx == transactions[k]
        IN  ~(hasCoinbaseInputs(tx) /\ hasRegularInputs(tx))

\* validateCoinbaseTransactions(transactions): every failure is the same error,
\* so the loop's early return is a conjunction over the transactions
validateCoinbaseTransactions(transactions) ==
    \A k \in 1..Len(transactions) :
        LET tx == transactions[k]
        IN  /\ ~(hasCoinbaseInputs(tx) /\ hasRegularInputs(tx))
            /\ (~hasCoinbaseInputs(tx) /\ Len(tx.inputs) = 0)
                  => sumValues(tx.outputs) = 0

\* the filter keeping every transaction that has inputs, coinbase or not
isRegular_AnyInputs(tx) == Len(tx.inputs) > 0

\* transactions.filter(...): non-coinbase transactions with inputs
isRegular(tx) == ~hasCoinbaseInputs(tx) /\ Len(tx.inputs) > 0

RECURSIVE inputRefs(_)
\* regularTransactions.flatMap(tx => tx.inputs.map(...))
inputRefs(transactions) ==
    IF transactions = <<>> THEN <<>>
    ELSE LET tx == Head(transactions)
         IN  (IF isRegular(tx)
              THEN [i \in 1..Len(tx.inputs) |->
                       [txId |-> tx.inputs[i].txId, vout |-> tx.inputs[i].index]]
              ELSE <<>>) \o inputRefs(Tail(transactions))

\* utxoMap.get(`${input.txId}:${input.index}`): the keys are built from the
\* txid strings as the repository returned them
utxoMapGet(found, input) ==
    {r \in found : r.txid = input.txId /\ r.vout = input.index}

RECURSIVE inputSum(_, _)
inputSum(found, inputs) ==
    IF inputs = <<>> THEN 0
    ELSE (CHOOSE r \in utxoMapGet(found, Head(inputs)) : TRUE).value
         + inputSum(found, Tail(inputs))

\* validateRegularTransactions without the comparison of the sums
validateRegularTransactions_NoSum(kind, db, transactions) ==
    LET found == findByTxIdsAndVouts(kind, db, inputRefs(transactions))
    IN  \A k \in 1..Len(transactions) :
            LET tx == transactions[k]
            IN  isRegular(tx) =>
                  \A i \in 1..Len(tx.inputs) : utxoMapGet(found, tx.inputs[i]) # {}

\* validateRegularTransactions looking inputs up in a store that already holds
\* the outputs of the block's own transactions
validateRegularTransactions_SeesBlock(kind, db, transactions) ==
    LET own == UNION { {newRow(kind, [txid |-> transactions[k].id, vout |-> i - 1,
                                     address |-> transactions[k].outputs[i].address,
                                     value |-> transactions[k].outputs[i].value,
                                     blockHeight |-> 0, spent |-> FALSE]) :
                          i \in 1..Len(transactions[k].outputs)} :
                       k \in 1..Len(transactions) }
        found == findByTxIdsAndVouts(kind, db \cup own, inputRefs(transactions))
    IN  \A k \in 1..Len(transactions) :
            LET tx == transactions[k]
            IN  isRegular(tx) =>
                  /\ \A i \in 1..Len(tx.inputs) : utxoMapGet(found, tx.inputs[i]) # {}
                  /\ inputSum(found, tx.inputs) = sumValues(tx.outputs)

\* validateRegularTransactions(transactions)
validateRegularTransactions(kind, db, transactions) ==
    LET found == findByTxIdsAndVouts(kind, db, inputRefs(transactions))
    IN  \A k \in 1..Len(transactions) :
            LET tx == transactions[k]
            IN  isRegular(tx) =>
                  /\ \A i \in 1..Len(tx.inputs) : utxoMapGet(found, tx.inputs[i]) # {}
                  /\ inputSum(found, tx.inputs) = sumValues(tx.outputs)

\* validateInputOutputSum(block)
validateInputOutputSum(kind, db, block) ==
    IF /\ validateCoinbaseTransactions(block.transactions)
       /\ validateRegularTransactions(kind, db, block.transactions)
    THEN result("Ok", db, NONE, NONE)
    ELSE result("InvalidInputOutputSum", db, NONE, NONE)

\* the hash validateBlockId expects: sha256(height + padded transaction ids)
expectedHash(height, transactions) ==
    sha256hex(decimalString(height)
              \o join([k \in 1..Len(transactions) |-> padTxId(transactions[k].id)]))

\* validateBlockId taking the transaction ids in either order
validateBlockId_EitherOrder(db, block) ==
    IF /\ block.id # expectedHash(block.height, block.transactions)
       /\ block.id # sha256hex(decimalString(block.height)
                        \o join([k \in 1..Len(block.transactions) |->
                                   padTxId(block.transactions[
                                       Len(block.transactions) + 1 - k].id)]))
    THEN result("InvalidBlockId", db, NONE, NONE)
    ELSE result("Ok", db, NONE, NONE)

\* validateBlockId(block)
validateBlockId(db, block) ==
    IF block.id # expectedHash(block.height, block.transactions)
    THEN result("InvalidBlockId", db, NONE, NONE)
    ELSE result("Ok", db, NONE, NONE)

RECURSIVE markInputs_StampsInput(_, _, _, _)
\* the input loop stamping the spent row with the id the input names
markInputs_StampsInput(kind, db, tx, i) ==
    IF i > Len(tx.inputs) THEN result("Ok", db, NONE, NONE)
    ELSE IF isCoinbaseInput(tx.inputs[i].txId) THEN markInputs_StampsInput(kind, db, tx, i + 1)
    ELSE LET r == markAsSpent(kind, db, tx.inputs[i].txId, tx.inputs[i].index,
                              tx.inputs[i].txId)
         IN  IF r.error # "Ok" THEN result(r.error, r.db, NONE, NONE)
             ELSE markInputs_StampsInput(kind, r.db, tx, i + 1)

RECURSIVE markInputs(_, _, _, _)
\* for (const input of transaction.inputs): markAsSpent, coinbase inputs skipped
markInputs(kind, db, tx, i) ==
    IF i > Len(tx.inputs) THEN result("Ok", db, NONE, NONE)
    ELSE IF isCoinbaseInput(tx.inputs[i].txId) THEN markInputs(kind, db, tx, i + 1)
    ELSE LET r == markAsSpent(kind, db, tx.inputs[i].txId, tx.inputs[i].index, tx.id)
         IN  IF r.error # "Ok" THEN result(r.error, r.db, NONE, NONE)
             ELSE markInputs(kind, r.db, tx, i + 1)

RECURSIVE insertOutputs(_, _, _, _, _)
\* for (let i = 0; i < transaction.outputs.length; i++): insert
insertOutputs(kind, db, tx, height, i) ==
    IF i >= Len(tx.outputs) THEN result("Ok", db, NONE, NONE)
    ELSE LET r == insert(kind, db,
                         [txid |-> tx.id, vout |-> i,
                          address |-> tx.outputs[i + 1].address,
                          value |-> tx.outputs[i + 1].value,
                          blockHeight |-> height, spent |-> FALSE])
         IN  IF r.error # "Ok" THEN result(r.error, r.db, NONE, NONE)
             ELSE insertOutputs(kind, r.db, tx, height, i + 1)

RECURSIVE processTransactions_InsertsAfterError(_, _, _, _)
\* the apply phase inserting a transaction's outputs although marking its
\* inputs failed
processTransactions_InsertsAfterError(kind, db, block, k) ==
    IF k > Len(block.transactions) THEN result("Ok", db, NONE, NONE)
    ELSE LET tx == block.transactions[k]
             m == markInputs(kind, db, tx, 1)
             o == insertOutputs(kind, m.db, tx, block.height, 0)
         IN  IF m.error # "Ok" THEN result(m.error, o.db, NONE, NONE)
             ELSE IF o.error # "Ok" THEN o
             ELSE processTransactions_InsertsAfterError(kind, o.db, block, k + 1)

RECURSIVE processTransactions(_, _, _, _)
\* for (const transaction of block.transactions): the apply phase
processTransactions(kind, db, block, k) ==
    IF k > Len(block.transactions) THEN result("Ok", db, NONE, NONE)
    ELSE LET tx == block.transactions[k]
             m == markInputs(kind, db, tx, 1)
         IN  IF m.error # "Ok" THEN m
             ELSE LET o == insertOutputs(kind, m.db, tx, block.height, 0)
                  IN  IF o.error # "Ok" THEN o
                      ELSE processTransactions(kind, o.db, block, k + 1)

\* processBlock checking the block id only after the apply phase
processBlock_IdAfterApply(kind, db, block) ==
    LET heightResult == validateHeight(db, block.height)
        sumResult == validateInputOutputSum(kind, db, block)
        applied == processTransactions(kind, db, block, 1)
        blockIdResult == validateBlockId(applied.db, block)
    IN  IF heightResult.error # "Ok" THEN heightResult
        ELSE IF sumResult.error # "Ok" THEN sumResult
        ELSE IF applied.error # "Ok" THEN applied
        ELSE blockIdResult

\* processBlock checking the block id before the sums
processBlock_IdBeforeSum(kind, db, block) ==
    LET heightResult == validateHeight(db, block.height)
        sumResult == validateInputOutputSum(kind, db, block)
        blockIdResult == validateBlockId(db, block)
    IN  IF heightResult.error # "Ok" THEN heightResult
        ELSE IF blockIdResult.error # "Ok" THEN blockIdResult
        ELSE IF sumResult.error # "Ok" THEN sumResult
        ELSE processTransactions(kind, db, block, 1)

\* processBlock(block)
processBlock(kind, db, block) ==
    LET heightResult == validateHeight(db, block.height)
        sumResult == validateInputOutputSum(kind, db, block)
        blockIdResult == validateBlockId(db, block)
    IN  IF heightResult.error # "Ok" THEN heightResult
        ELSE IF sumResult.error # "Ok" THEN sumResult
        ELSE IF blockIdResult.error # "Ok" THEN blockIdResult
        ELSE processTransactions(kind, db, block, 1)

-----------------------------------------------------------------------------
(* RollbackService                                                         *)

\* validateRollbackHeight without the comparison with the current height
validateRollbackHeight_NoUpperBound(db, targetHeight) ==
    IF targetHeight < 0
    THEN result("InvalidRollbackHeight", db, targetHeight, NONE)
    ELSE result("Ok", db, NONE, NONE)

\* validateRollbackHeight(targetHeight)
validateRollbackHeight(db, targetHeight) ==
    IF targetHeight < 0
    THEN result("InvalidRollbackHeight", db, targetHeight, NONE)
    ELSE IF targetHeight > getMaxBlockHeight(db)
    THEN result("InvalidRollbackHeight", db, targetHeight, getMaxBlockHeight(db))
    ELSE result("Ok", db, NONE, NONE)

\* rollbackToHeight(targetHeight)
rollbackToHeight(kind, db, targetHeight) ==
    LET validationResult == validateRollbackHeight(db, targetHeight)
        utxosToDelete == findUTXOsByBlockHeight(db, targetHeight)
        txIdsToRollback == {u.txid : u \in utxosToDelete}
        unmarked == IF txIdsToRollback # {}
                    THEN unmarkAsSpent(kind, db, txIdsToRollback) ELSE db
    IN  IF validationResult.error # "Ok" THEN validationResult
        ELSE IF utxosToDelete = {}
        THEN result("NoBlocksToRollback", db, targetHeight, getMaxBlockHeight(db))
        ELSE result("Ok", deleteUTXOsByBlockHeight(unmarked, targetHeight), NONE, NONE)

\* BalanceService.getBalance(address)
getBalance(db, address) == getBalanceByAddress(db, address)

-----------------------------------------------------------------------------
(* The requests the service is driven with                                 *)

TxA == padTxId(<<"a">>)
TxB == padTxId(<<"b">>)
TxC == padTxId(<<"c">>)
Zero64 == padTxId(<<"0">>)      \* the coinbase marker at full width
Zero1 == <<"0">>                \* the shortest coinbase marker

in(txId, index) == [txId |-> txId, index |-> index]
out(address, value) == [address |-> address, value |-> value]
tx(id, inputs, outputs) == [id |-> id, inputs |-> inputs, outputs |-> outputs]

\* The transactions blocks are built from, in the order they may appear in a block.
Catalogue ==
    << tx(TxA, <<in(Zero64, 0)>>, <<out("A", 1), out("B", 0)>>),       \* coinbase
       tx(TxB, <<in(TxA, 0)>>, <<out("B", 1)>>),                       \* spends a:0
       tx(TxB, <<in(TxA, 0), in(TxA, 0)>>, <<out("A", 1), out("B", 1)>>), \* a:0 twice
       tx(TxC, <<in(TxA, 1)>>, <<>>),                                  \* spends a:1, no output
       tx(TxC, <<in(TxB, 0)>>, <<out("A", 1)>>),                       \* spends b:0
       tx(TxC, <<in(Zero64, 0), in(TxA, 0)>>, <<out("A", 1)>>),        \* coinbase + regular
       tx(TxC, <<>>, <<out("A", 1), out("B", 0 - 1)>>),                \* no input, sum 0
       tx(TxC, <<>>, <<out("A", 1)>>),                                 \* no input, sum 1
       tx(TxC, <<in(TxA, 0)>>, <<out("A", 1), out("B", 1)>>),          \* 1 in, 2 out
       tx(TxC, <<in(Zero1, 1)>>, <<out("B", 1)>>) >>                   \* coinbase, short marker

\* the lists of at most MaxTxs transactions, taken from the catalogue in its order
TxLists ==
    UNION { { [k \in 1..n |-> Catalogue[f[k]]] :
                f \in {g \in [1..n -> 1..Len(Catalogue)] :
                          \A i \in 1..n : \A j \in 1..n : i < j => g[i] < g[j]} } :
            n \in 0..MaxTxs }

InvalidId == <<"invalid_block_id">>

\* a list back to front
Reverse(s) == [i \in 1..Len(s) |-> s[Len(s) + 1 - i]]

\* POST /blocks bodies: any height in 0..MaxHeight; the right id, a wrong one,
\* or the hash of the transaction ids taken back to front
Blocks ==
    { [id |-> i, height |-> h, transactions |-> txs] :
        i \in {InvalidId}, h \in 0..MaxHeight, txs \in TxLists }
    \cup
    { [id |-> expectedHash(h, txs), height |-> h, transactions |-> txs] :
        h \in 0..MaxHeight, txs \in TxLists }
    \cup
    { [id |-> expectedHash(h, Reverse(txs)), height |-> h, transactions |-> txs] :
        h \in 0..MaxHeight, txs \in TxLists }

\* transactions whose ids are sent shorter than TxIdLength characters
ShortCatalogue ==
    << tx(<<"d">>, <<in(Zero64, 0)>>, <<out("A", 1)>>),        \* coinbase, id "d"
       tx(<<"e">>, <<in(TxA, 0)>>, <<out("B", 1)>>),           \* id "e", spends a:0
       tx(TxB, <<in(<<"d">>, 0)>>, <<out("B", 1)>>) >>         \* spends d:0, named "d"

\* POST /blocks bodies with the right id and one transaction with a short id
ShortBlocks ==
    { [id |-> expectedHash(h, <<ShortCatalogue[k]>>), height |-> h,
       transactions |-> <<ShortCatalogue[k]>>] :
        h \in 1..MaxHeight, k \in 1..Len(ShortCatalogue) }

\* POST /rollback?height=N
Targets == (0 - 1)..(MaxHeight + 1)

\* GET /balance/:address: the addresses of the catalogue and one no output names
Addresses == {"A", "B", "C"}

NoBlock == [id |-> <<>>, height |-> NONE, transactions |-> <<>>]
NoRequest == [op |-> "none", block |-> NoBlock, targetHeight |-> NONE, address |-> ""]
NoResult ==
    [error |-> "none", height |-> NONE, currentHeight |-> NONE, balance |-> 0,
     failed |-> "none"]

\* the error (or Ok) of a service result, without the store
outcome(r) ==
    [error |-> r.error, height |-> r.height, currentHeight |-> r.currentHeight,
     balance |-> 0, failed |-> "none"]

\* getErrorStatusCode(error): the statusCode the error was constructed with
getErrorStatusCode(error) ==
    CASE error = "DatabaseError" -> 500
      [] error = "MutexTimeout" -> 408
      [] error = "UTXONotFound" -> 404
      [] OTHER -> 400

-----------------------------------------------------------------------------
(* The serialization gate (MutexService) and the handlers that take it      *)

\* the mutex as created by new Mutex(): free, nobody waiting
FreeGate == [locked |-> FALSE, queue |-> <<>>]

\* an acquire that is granted whether or not the mutex is taken
acquireWithTimeout_NoWait(g, w) ==
    [gate |-> [g EXCEPT !.locked = TRUE], granted |-> TRUE]

\* acquireWithTimeout(timeoutMs) called by w: granted at once when the mutex is
\* free, otherwise w waits behind the earlier waiters
acquireWithTimeout(g, w) ==
    IF ~g.locked
    THEN [gate |-> [g EXCEPT !.locked = TRUE], granted |-> TRUE]
    ELSE [gate |-> [g EXCEPT !.queue = Append(@, w)], granted |-> FALSE]

\* a release that passes the mutex to the waiter that came last
release_LastWaiter(g) ==
    IF g.queue = <<>>
    THEN [gate |-> [g EXCEPT !.locked = FALSE], next |-> 0]
    ELSE [gate |-> [g EXCEPT !.queue = SubSeq(@, 1, Len(@) - 1)],
          next |-> g.queue[Len(g.queue)]]

\* release(): the mutex passes to the longest-waiting waiter (next), or is free
release(g) ==
    IF g.queue = <<>>
    THEN [gate |-> [g EXCEPT !.locked = FALSE], next |-> 0]
    ELSE [gate |-> [g EXCEPT !.queue = Tail(@)], next |-> Head(g.queue)]

\* a timer that rejects the acquire and leaves w among the waiters
timeout_StaysQueued(g, w) == g

\* the timer of w's acquire fires: MutexTimeoutError, w waits no longer
timeout(g, w) == [g EXCEPT !.queue = SelectSeq(@, LAMBDA x : x # w)]

\* the x-block-ttl header: absent, or the string sent
TtlHeaders == {"absent", "250", "250ms", "0", "soon"}

DEFAULT_TIMEOUT_MS == 5000

\* timeoutMs of the handlers: parseInt(header, 10), DEFAULT_TIMEOUT_MS without
\* header; parseInt reads the leading digits and ignores what follows them,
\* and gives NaN for a string that does not start with a number
timeoutMs(header) ==
    CASE header = "absent" -> [isNaN |-> FALSE, n |-> DEFAULT_TIMEOUT_MS]
      [] header = "250" -> [isNaN |-> FALSE, n |-> 250]
      [] header = "250ms" -> [isNaN |-> FALSE, n |-> 250]
      [] header = "0" -> [isNaN |-> FALSE, n |-> 0]
      [] OTHER -> [isNaN |-> TRUE, n |-> 0]

\* what parseInt(header, 10) leaves unread behind the number
unparsed(header) == IF header = "250ms" THEN "ms" ELSE ""

\* isNaN(timeoutMs) || timeoutMs <= 0
ttlInvalid(ms) == ms.isNaN \/ ms.n <= 0

\* the repository calls of processBlock's apply phase, in program order
txOps(t, height) ==
    LET regular == SelectSeq(t.inputs, LAMBDA input : ~isCoinbaseInput(input.txId))
    IN  [i \in 1..Len(regular) |->
            [op |-> "markAsSpent", txId |-> regular[i].txId, vout |-> regular[i].index,
             spentTxid |-> t.id, address |-> "", value |-> 0, blockHeight |-> height]]
        \o
        [i \in 1..Len(t.outputs) |->
            [op |-> "insert", txId |-> t.id, vout |-> i - 1, spentTxid |-> <<>>,
             address |-> t.outputs[i].address, value |-> t.outputs[i].value,
             blockHeight |-> height]]

RECURSIVE applyOps(_, _)
applyOps(transactions, height) ==
    IF transactions = <<>> THEN <<>>
    ELSE txOps(Head(transactions), height) \o applyOps(Tail(transactions), height)

\* one repository call of the apply phase
applyOp(kind, db, o) ==
    IF o.op = "markAsSpent"
    THEN markAsSpent(kind, db, o.txId, o.vout, o.spentTxid)
    ELSE insert(kind, db, [txid |-> o.txId, vout |-> o.vout, address |-> o.address,
                           value |-> o.value, blockHeight |-> o.blockHeight,
                           spent |-> FALSE])

\* the repository calls whose query may throw: the method, and which of the
\* request's calls of it (the first; the tip is also queried a second time)
Faults ==
    {[method |-> m, call |-> 1] :
        m \in {"getMaxBlockHeight", "findByTxIdsAndVouts", "markAsSpent", "insert",
               "findUTXOsByBlockHeight", "unmarkAsSpent", "deleteUTXOsByBlockHeight"}}
    \cup {[method |-> "getMaxBlockHeight", call |-> 2]}

\* a service result, and whether the failing repository call was made
failing(r, failed) ==
    [error |-> r.error, db |-> r.db, height |-> r.height,
     currentHeight |-> r.currentHeight, failed |-> failed]

\* the apply phase when the first call of repository method f.method returns
\* err(DatabaseError) (catch (error) of the repository method)
RECURSIVE applyFailing(_, _, _, _)
applyFailing(kind, db, ops, f) ==
    IF ops = <<>> THEN failing(result("Ok", db, NONE, NONE), FALSE)
    ELSE IF Head(ops).op = f.method
    THEN failing(result("DatabaseError", db, NONE, NONE), TRUE)
    ELSE LET r == applyOp(kind, db, Head(ops))
         IN  IF r.error # "Ok" THEN failing(result(r.error, r.db, NONE, NONE), FALSE)
             ELSE applyFailing(kind, r.db, Tail(ops), f)

\* processBlock(block) when the repository call f fails
processBlockFailing(kind, db, block, f) ==
    LET heightResult == validateHeight(db, block.height)
        sumResult == validateInputOutputSum(kind, db, block)
        blockIdResult == validateBlockId(db, block)
    IN  IF f = [method |-> "getMaxBlockHeight", call |-> 1]
        THEN \* validateHeight: maxHeightResult.isErr()
             failing(result("InvalidBlockHeight", db, NONE, NONE), TRUE)
        ELSE IF heightResult.error # "Ok" THEN failing(heightResult, FALSE)
        ELSE IF ~validateCoinbaseTransactions(block.transactions)
        THEN failing(sumResult, FALSE)
        ELSE IF /\ f.method = "findByTxIdsAndVouts"
                /\ \E k \in 1..Len(block.transactions) : isRegular(block.transactions[k])
        THEN \* validateRegularTransactions: utxosResult.isErr()
             failing(result("InvalidInputOutputSum", db, NONE, NONE), TRUE)
        ELSE IF sumResult.error # "Ok" THEN failing(sumResult, FALSE)
        ELSE IF blockIdResult.error # "Ok" THEN failing(blockIdResult, FALSE)
        ELSE applyFailing(kind, db, applyOps(block.transactions, block.height), f)

\* rollbackToHeight(targetHeight) when the repository call f fails
rollbackToHeightFailing(kind, db, targetHeight, f) ==
    LET validationResult == validateRollbackHeight(db, targetHeight)
        utxosToDelete == findUTXOsByBlockHeight(db, targetHeight)
        txIdsToRollback == {u.txid : u \in utxosToDelete}
        unmarked == unmarkAsSpent(kind, db, txIdsToRollback)
    IN  IF targetHeight < 0 THEN failing(validationResult, FALSE)
        ELSE IF f = [method |-> "getMaxBlockHeight", call |-> 1]
        THEN \* validateRollbackHeight: maxHeightResult.isErr()
             failing(result("InvalidRollbackHeight", db, targetHeight, NONE), TRUE)
        ELSE IF validationResult.error # "Ok" THEN failing(validationResult, FALSE)
        ELSE IF f.method = "findUTXOsByBlockHeight"
        THEN failing(result("DatabaseError", db, NONE, NONE), TRUE)
        ELSE IF utxosToDelete = {}
        THEN IF f = [method |-> "getMaxBlockHeight", call |-> 2]
             THEN \* the tip query before NoBlocksToRollbackError: maxHeightResult.isErr()
                  failing(result("InvalidRollbackHeight", db, targetHeight, NONE), TRUE)
             ELSE failing(result("NoBlocksToRollback", db, targetHeight,
                                 getMaxBlockHeight(db)), FALSE)
        ELSE IF f.method = "unmarkAsSpent"
        THEN failing(result("DatabaseError", db, NONE, NONE), TRUE)
        ELSE IF f.method = "deleteUTXOsByBlockHeight"
        THEN failing(result("DatabaseError", unmarked, NONE, NONE), TRUE)
        ELSE failing(result("Ok", deleteUTXOsByBlockHeight(unmarked, targetHeight),
                            NONE, NONE), FALSE)

\* a transaction paying the output a:0 (address A) back to address A
TxToSelf == tx(TxB, <<in(TxA, 0)>>, <<out("A", 1)>>)

\* the write requests the concurrent handlers are given: the first two blocks
\* of a chain, a block of height 1 without transactions, a rollback to 0
GateRequests ==
    << [op |-> "processBlock", targetHeight |-> NONE,
        block |-> [id |-> expectedHash(1, <<Catalogue[1]>>), height |-> 1,
                   transactions |-> <<Catalogue[1]>>]],
       [op |-> "processBlock", targetHeight |-> NONE,
        block |-> [id |-> expectedHash(2, <<TxToSelf>>), height |-> 2,
                   transactions |-> <<TxToSelf>>]],
       [op |-> "processBlock", targetHeight |-> NONE,
        block |-> [id |-> expectedHash(1, <<>>), height |-> 1, transactions |-> <<>>]],
       [op |-> "rollbackToHeight", targetHeight |-> 0, block |-> NoBlock] >>

Writers == 1..MaxWriters

IdleWriter == [pc |-> "idle", req |-> 0, res |-> "none", unparsed |-> "", n |-> 0, txIds |-> {}]
IdleReader == [pc |-> "idle", address |-> "", balance |-> 0]

\* where a handler that was granted the gate goes on
firstStep(r) ==
    IF GateRequests[r].op = "processBlock" THEN "validateHeight"
    ELSE "validateRollbackHeight"

-----------------------------------------------------------------------------
(* The state machine: one write request at a time                          *)

Init ==
    /\ impl = "pg"
    /\ utxos = {}
    /\ pc = "idle"
    /\ req = NoRequest
    /\ res = NoResult
    /\ pre = {}
    /\ snaps = <<>>
    /\ track = TRUE
    /\ gate = FreeGate
    /\ writers = [w \in Writers |-> IdleWriter]
    /\ reader = IdleReader
    /\ order = <<>>
    /\ asked = <<>>

\* as Init, with the in-memory repository of the test container bound
InitMem ==
    /\ impl = "mem"
    /\ utxos = {}
    /\ pc = "idle"
    /\ req = NoRequest
    /\ res = NoResult
    /\ pre = {}
    /\ snaps = <<>>
    /\ track = TRUE
    /\ gate = FreeGate
    /\ writers = [w \in Writers |-> IdleWriter]
    /\ reader = IdleReader
    /\ order = <<>>
    /\ asked = <<>>

\* POST /blocks arrives: the handler has the parsed body
ReceiveBlock ==
    /\ pc = "idle"
    /\ \E b \in Blocks :
          req' = [op |-> "processBlock", block |-> b, targetHeight |-> NONE,
                  address |-> ""]
    /\ pc' = "called"
    /\ UNCHANGED <<impl, utxos, res, pre, snaps, track>>
    /\ UNCHANGED gateVars

\* POST /rollback arrives
ReceiveRollback ==
    /\ pc = "idle"
    /\ \E t \in Targets :
          req' = [op |-> "rollbackToHeight", block |-> NoBlock, targetHeight |-> t,
                  address |-> ""]
    /\ pc' = "called"
    /\ UNCHANGED <<impl, utxos, res, pre, snaps, track>>
    /\ UNCHANGED gateVars

\* GET /balance/:address arrives
ReceiveBalance ==
    /\ pc = "idle"
    /\ \E a \in Addresses :
          req' = [op |-> "getBalance", block |-> NoBlock, targetHeight |-> NONE,
                  address |-> a]
    /\ pc' = "called"
    /\ UNCHANGED <<impl, utxos, res, pre, snaps, track>>
    /\ UNCHANGED gateVars

\* balanceService.getBalance(address) runs to its result
GetBalance ==
    /\ pc = "called"
    /\ req.op = "getBalance"
    /\ res' = [error |-> "Ok", height |-> NONE, currentHeight |-> NONE,
               balance |-> getBalance(utxos, req.address), failed |-> "none"]
    /\ pre' = utxos
    /\ pc' = "returned"
    /\ UNCHANGED <<impl, utxos, req, snaps, track>>
    /\ UNCHANGED gateVars

\* blockService.processBlock(block) runs to its result
ProcessBlock ==
    /\ pc = "called"
    /\ req.op = "processBlock"
    /\ LET r == processBlock(impl, utxos, req.block)
       IN  /\ utxos' = r.db
           /\ res' = outcome(r)
           /\ IF /\ track
                 /\ r.error = "Ok"
                 /\ getMaxBlockHeight(r.db) = getMaxBlockHeight(utxos) + 1
              THEN snaps' = Append(snaps, r.db) /\ track' = TRUE
              ELSE IF r.error # "Ok" /\ r.db = utxos
              THEN UNCHANGED <<snaps, track>>
              ELSE snaps' = <<>> /\ track' = FALSE
    /\ pre' = utxos
    /\ pc' = "returned"
    /\ UNCHANGED <<impl, req>>
    /\ UNCHANGED gateVars

\* rollbackService.rollbackToHeight(height) runs to its result
RollbackToHeight ==
    /\ pc = "called"
    /\ req.op = "rollbackToHeight"
    /\ LET r == rollbackToHeight(impl, utxos, req.targetHeight)
       IN  /\ utxos' = r.db
           /\ res' = outcome(r)
    /\ pre' = utxos
    /\ pc' = "returned"
    /\ UNCHANGED <<impl, req, snaps, track>>
    /\ UNCHANGED gateVars

\* the reply is sent; the next request may be served
Reply ==
    /\ pc = "returned"
    /\ pc' = "idle"
    /\ req' = NoRequest
    /\ res' = NoResult
    /\ pre' = {}
    /\ IF req.op = "rollbackToHeight" /\ utxos # pre
       THEN snaps' = <<>> /\ track' = FALSE
       ELSE UNCHANGED <<snaps, track>>
    /\ UNCHANGED <<impl, utxos>>
    /\ UNCHANGED gateVars

Next ==
    \/ ReceiveBlock
    \/ ReceiveRollback
    \/ ReceiveBalance
    \/ ProcessBlock
    \/ RollbackToHeight
    \/ GetBalance
    \/ Reply

Spec == Init /\ [][Next]_vars

\* blockService.processBlock(block) runs to its result, one repository call failing
ProcessBlockFailing ==
    /\ pc = "called"
    /\ req.op = "processBlock"
    /\ \E f \in Faults :
          LET r == processBlockFailing(impl, utxos, req.block, f)
          IN  /\ r.failed
              /\ utxos' = r.db
              /\ res' = [outcome(r) EXCEPT !.failed = f.method]
              /\ IF r.db = utxos
                 THEN UNCHANGED <<snaps, track>>
                 ELSE snaps' = <<>> /\ track' = FALSE
    /\ pre' = utxos
    /\ pc' = "returned"
    /\ UNCHANGED <<impl, req>>
    /\ UNCHANGED gateVars

\* rollbackService.rollbackToHeight(height) runs to its result, one repository
\* call failing
RollbackToHeightFailing ==
    /\ pc = "called"
    /\ req.op = "rollbackToHeight"
    /\ \E f \in Faults :
          LET r == rollbackToHeightFailing(impl, utxos, req.targetHeight, f)
          IN  /\ r.failed
              /\ utxos' = r.db
              /\ res' = [outcome(r) EXCEPT !.failed = f.method]
    /\ pre' = utxos
    /\ pc' = "returned"
    /\ UNCHANGED <<impl, req, snaps, track>>
    /\ UNCHANGED gateVars

\* POST /blocks arrives with a block whose transaction or input id is short
ReceiveShortBlock ==
    /\ pc = "idle"
    /\ \E b \in ShortBlocks :
          req' = [op |-> "processBlock", block |-> b, targetHeight |-> NONE,
                  address |-> ""]
    /\ pc' = "called"
    /\ UNCHANGED <<impl, utxos, res, pre, snaps, track>>
    /\ UNCHANGED gateVars

NextShort ==
    \/ Next
    \/ ReceiveShortBlock

\* the sequential machine, also given ids shorter than TxIdLength
SpecShort == Init /\ [][NextShort]_vars

NextFailing ==
    \/ Next
    \/ ProcessBlockFailing
    \/ RollbackToHeightFailing

\* the sequential machine with a store whose queries may fail
SpecFailing == Init /\ [][NextFailing]_vars

SpecMem == InitMem /\ [][Next]_vars

-----------------------------------------------------------------------------
(* The state machine: concurrent handlers around the gate                   *)

\* the store is empty, the gate free and no request has arrived
InitGate ==
    /\ impl = "pg"
    /\ utxos = {}
    /\ pc = "concurrent"
    /\ req = NoRequest
    /\ res = NoResult
    /\ pre = {}
    /\ snaps = <<>>
    /\ track = TRUE
    /\ gate = FreeGate
    /\ writers = [w \in Writers |-> IdleWriter]
    /\ reader = IdleReader
    /\ order = <<>>
    /\ asked = <<>>

seqVars == <<impl, pc, req, res, pre, snaps, track>>

\* writer w has the release function and has not called it yet
holds(w) ==
    writers[w].pc \in {"validateHeight", "validateInputOutputSum", "apply",
                       "validateRollbackHeight", "findUTXOsByBlockHeight",
                       "unmarkAsSpent", "deleteUTXOsByBlockHeight", "release"}

\* w's service call is over with result r: on to the finally block
finish(w, r) == [writers EXCEPT ![w].pc = "release", ![w].res = r]

\* POST /blocks or POST /rollback arrives (writers are numbered as they
\* arrive); a bad x-block-ttl header is answered 400 at once
Arrive(w) ==
    /\ pc = "concurrent"
    /\ writers[w].pc = "idle"
    /\ \A v \in Writers : v < w => writers[v].pc # "idle"
    /\ \E r \in 1..Len(GateRequests), header \in TtlHeaders :
          writers' = [writers EXCEPT ![w] =
                         IF ttlInvalid(timeoutMs(header))
                         THEN [@ EXCEPT !.pc = "done", !.req = r, !.res = "InvalidTtl"]
                         ELSE [@ EXCEPT !.pc = "acquire", !.req = r,
                                        !.unparsed = unparsed(header)]]
    /\ UNCHANGED <<seqVars, utxos, gate, reader, order, asked>>

\* the handler going on to the service without asking for the gate
AcquireGate_NoGate(w) ==
    /\ writers[w].pc = "acquire"
    /\ writers' = [writers EXCEPT ![w].pc = firstStep(writers[w].req), ![w].unparsed = ""]
    /\ order' = Append(order, w)
    /\ asked' = Append(asked, w)
    /\ UNCHANGED <<seqVars, utxos, gate, reader>>

\* await mutexService.acquireWithTimeout(timeoutMs)
AcquireGate(w) ==
    /\ writers[w].pc = "acquire"
    /\ LET a == acquireWithTimeout(gate, w)
       IN  /\ gate' = a.gate
           /\ IF a.granted
              THEN /\ writers' = [writers EXCEPT ![w].pc = firstStep(writers[w].req),
                                                  ![w].unparsed = ""]
                   /\ order' = Append(order, w)
              ELSE /\ writers' = [writers EXCEPT ![w].pc = "waiting", ![w].unparsed = ""]
                   /\ UNCHANGED order
    /\ asked' = Append(asked, w)
    /\ UNCHANGED <<seqVars, utxos, reader>>

\* the ttl runs out while w waits: mutexResult.isErr(), reply 408
MutexTimeout(w) ==
    /\ writers[w].pc = "waiting"
    /\ gate' = timeout(gate, w)
    /\ writers' = [writers EXCEPT ![w].pc = "done", ![w].res = "MutexTimeout"]
    /\ asked' = SelectSeq(asked, LAMBDA x : x # w)
    /\ UNCHANGED <<seqVars, utxos, reader, order>>

\* processBlock: await this.validateHeight(block.height)
ValidateHeight(w) ==
    /\ writers[w].pc = "validateHeight"
    /\ LET r == validateHeight(utxos, GateRequests[writers[w].req].block.height)
       IN  writers' = IF r.error # "Ok" THEN finish(w, r.error)
                      ELSE [writers EXCEPT ![w].pc = "validateInputOutputSum"]
    /\ UNCHANGED <<seqVars, utxos, gate, reader, order, asked>>

\* processBlock: await this.validateInputOutputSum(block), then validateBlockId
ValidateInputOutputSum(w) ==
    /\ writers[w].pc = "validateInputOutputSum"
    /\ LET b == GateRequests[writers[w].req].block
           sumResult == validateInputOutputSum(impl, utxos, b)
           blockIdResult == validateBlockId(utxos, b)
       IN  writers' =
              IF sumResult.error # "Ok" THEN finish(w, sumResult.error)
              ELSE IF blockIdResult.error # "Ok" THEN finish(w, blockIdResult.error)
              ELSE IF applyOps(b.transactions, b.height) = <<>> THEN finish(w, "Ok")
              ELSE [writers EXCEPT ![w].pc = "apply", ![w].n = 1]
    /\ UNCHANGED <<seqVars, utxos, gate, reader, order, asked>>

\* processBlock: the next await this.repository.markAsSpent / insert
Apply(w) ==
    /\ writers[w].pc = "apply"
    /\ LET b == GateRequests[writers[w].req].block
           ops == applyOps(b.transactions, b.height)
           r == applyOp(impl, utxos, ops[writers[w].n])
       IN  /\ utxos' = r.db
           /\ writers' =
                 IF r.error # "Ok" THEN [finish(w, r.error) EXCEPT ![w].n = 0]
                 ELSE IF writers[w].n = Len(ops) THEN [finish(w, "Ok") EXCEPT ![w].n = 0]
                 ELSE [writers EXCEPT ![w].n = @ + 1]
    /\ UNCHANGED <<seqVars, gate, reader, order, asked>>

\* rollbackToHeight: await this.validateRollbackHeight(targetHeight)
ValidateRollbackHeight(w) ==
    /\ writers[w].pc = "validateRollbackHeight"
    /\ LET r == validateRollbackHeight(utxos, GateRequests[writers[w].req].targetHeight)
       IN  writers' = IF r.error # "Ok" THEN finish(w, r.error)
                      ELSE [writers EXCEPT ![w].pc = "findUTXOsByBlockHeight"]
    /\ UNCHANGED <<seqVars, utxos, gate, reader, order, asked>>

\* rollbackToHeight: await this.repository.findUTXOsByBlockHeight(targetHeight)
FindUTXOsByBlockHeight(w) ==
    /\ writers[w].pc = "findUTXOsByBlockHeight"
    /\ LET utxosToDelete ==
               findUTXOsByBlockHeight(utxos, GateRequests[writers[w].req].targetHeight)
       IN  writers' =
              IF utxosToDelete = {} THEN finish(w, "NoBlocksToRollback")
              ELSE [writers EXCEPT ![w].pc = "unmarkAsSpent",
                                   ![w].txIds = {u.txid : u \in utxosToDelete}]
    /\ UNCHANGED <<seqVars, utxos, gate, reader, order, asked>>

\* rollbackToHeight: await this.repository.unmarkAsSpent(txIdsToRollback)
UnmarkAsSpent(w) ==
    /\ writers[w].pc = "unmarkAsSpent"
    /\ utxos' = unmarkAsSpent(impl, utxos, writers[w].txIds)
    /\ writers' = [writers EXCEPT ![w].pc = "deleteUTXOsByBlockHeight", ![w].txIds = {}]
    /\ UNCHANGED <<seqVars, gate, reader, order, asked>>

\* rollbackToHeight: await this.repository.deleteUTXOsByBlockHeight(targetHeight)
DeleteUTXOsByBlockHeight(w) ==
    /\ writers[w].pc = "deleteUTXOsByBlockHeight"
    /\ utxos' = deleteUTXOsByBlockHeight(utxos, GateRequests[writers[w].req].targetHeight)
    /\ writers' = finish(w, "Ok")
    /\ UNCHANGED <<seqVars, gate, reader, order, asked>>

\* a handler that replies without calling release
Release_NoRelease(w) ==
    /\ writers[w].pc = "release"
    /\ writers' = [writers EXCEPT ![w].pc = "done"]
    /\ asked' = SelectSeq(asked, LAMBDA x : x # w)
    /\ UNCHANGED <<seqVars, utxos, gate, reader, order>>

\* finally { release() } and the reply: the longest-waiting waiter goes on
Release(w) ==
    /\ writers[w].pc = "release"
    /\ LET r == release(gate)
       IN  /\ gate' = r.gate
           /\ IF r.next = 0
              THEN /\ writers' = [writers EXCEPT ![w].pc = "done"]
                   /\ UNCHANGED order
              ELSE /\ writers' = [writers EXCEPT
                                     ![w].pc = "done",
                                     ![r.next].pc = firstStep(writers[r.next].req)]
                   /\ order' = Append(order, r.next)
    /\ asked' = SelectSeq(asked, LAMBDA x : x # w)
    /\ UNCHANGED <<seqVars, utxos, reader>>

\* GET /balance/:address is served, without the gate
ReadBalance ==
    /\ pc = "concurrent"
    /\ reader.pc = "idle"
    /\ \E a \in Addresses :
          reader' = [pc |-> "done", address |-> a, balance |-> getBalance(utxos, a)]
    /\ UNCHANGED <<seqVars, utxos, gate, writers, order, asked>>

NextGate ==
    \/ \E w \in Writers : Arrive(w)
    \/ \E w \in Writers : AcquireGate(w)
    \/ \E w \in Writers : MutexTimeout(w)
    \/ \E w \in Writers : ValidateHeight(w)
    \/ \E w \in Writers : ValidateInputOutputSum(w)
    \/ \E w \in Writers : Apply(w)
    \/ \E w \in Writers : ValidateRollbackHeight(w)
    \/ \E w \in Writers : FindUTXOsByBlockHeight(w)
    \/ \E w \in Writers : UnmarkAsSpent(w)
    \/ \E w \in Writers : DeleteUTXOsByBlockHeight(w)
    \/ \E w \in Writers : Release(w)

\* the write requests alone
SpecGate == InitGate /\ [][NextGate]_vars

\* a continuation of the handler that holds the gate: what the event loop runs
\* once the awaited repository call has settled
HolderStep(w) ==
    \/ ValidateHeight(w)
    \/ ValidateInputOutputSum(w)
    \/ Apply(w)
    \/ ValidateRollbackHeight(w)
    \/ FindUTXOsByBlockHeight(w)
    \/ UnmarkAsSpent(w)
    \/ DeleteUTXOsByBlockHeight(w)
    \/ Release(w)

\* the write requests, every awaited repository call settling
SpecGateFair == SpecGate /\ \A w \in Writers : WF_vars(HolderStep(w))

NextRead ==
    \/ NextGate
    \/ ReadBalance

\* the write requests and one balance request
SpecRead == InitGate /\ [][NextRead]_vars


-----------------------------------------------------------------------------
(* Properties                                                              *)

returnedBlock == pc = "returned" /\ req.op = "processBlock"
returnedRollback == pc = "returned" /\ req.op = "rollbackToHeight"

\* the store after ingesting only the first k accepted blocks
snapAt(k) == IF k = 0 THEN {} ELSE snaps[k]

\* C1: after ingesting accepted blocks B1..Bn (each raising the tip by one) and
\* then calling rollbackToHeight(k) with k in 0..n, the store equals the store
\* after ingesting only B1..Bk.
C1_RollbackInvertsIngest ==
    (returnedRollback /\ track /\ req.targetHeight \in 0..Len(snaps))
        => utxos = snapAt(req.targetHeight)


\* what the claims say about the block of the request just served
blk == req.block
heightFits == blk.height = getMaxBlockHeight(pre) + 1
idFits == blk.id = expectedHash(blk.height, blk.transactions)

\* the unspent rows of the store `db` that an input names
unspentAt(db, input) ==
    {r \in db : txidEq(impl, r.txid, input.txId) /\ r.vout = input.index /\ ~r.spent}

\* the rows of the store `db` that an input names, spent or not
rowsAt(db, input) ==
    {r \in db : txidEq(impl, r.txid, input.txId) /\ r.vout = input.index}

\* C2: processBlock returns InvalidBlockHeight (carrying the block's height and
\* the tip) whenever block.height # tip() + 1, and accepts a block only if
\* block.height = tip() + 1.
C2_HeightCheck ==
    returnedBlock =>
        /\ ~heightFits =>
              /\ res.error = "InvalidBlockHeight"
              /\ res.height = blk.height
              /\ res.currentHeight = getMaxBlockHeight(pre)
        /\ res.error = "Ok" => heightFits

\* a block two or more above a non-empty chain's tip was turned down
C2_Witness ==
    /\ returnedBlock
    /\ pre # {}
    /\ blk.height > getMaxBlockHeight(pre) + 1
    /\ idFits
    /\ res.error = "InvalidBlockHeight"

\* C3: whenever processBlock returns a validation error, the store is exactly
\* as it was before the call.
C3_ValidationErrorLeavesStore ==
    (returnedBlock /\ res.error \in {"InvalidBlockHeight", "InvalidInputOutputSum",
                                      "InvalidBlockId"})
        => utxos = pre

\* a block whose apply phase would have changed the store was turned down for its id
C3_Witness ==
    /\ returnedBlock
    /\ res.error = "InvalidBlockId"
    /\ processTransactions(impl, pre, blk, 1).db # pre
    /\ utxos = pre

\* C4: the checks run in the order height, conservation, identity, and the first
\* failing one decides the error.
C4_ValidationOrder ==
    returnedBlock =>
        /\ validateHeight(pre, blk.height).error # "Ok"
              => res.error = "InvalidBlockHeight"
        /\ (/\ validateHeight(pre, blk.height).error = "Ok"
            /\ validateInputOutputSum(impl, pre, blk).error # "Ok")
              => res.error = "InvalidInputOutputSum"
        /\ (/\ validateHeight(pre, blk.height).error = "Ok"
            /\ validateInputOutputSum(impl, pre, blk).error = "Ok"
            /\ validateBlockId(pre, blk).error # "Ok")
              => res.error = "InvalidBlockId"

\* a block of the right height failing both the conservation and the identity check
C4_Witness ==
    /\ returnedBlock
    /\ heightFits
    /\ validateInputOutputSum(impl, pre, blk).error # "Ok"
    /\ ~idFits
    /\ res.error = "InvalidInputOutputSum"

\* the sum, input by input, of the values of the unspent rows the inputs name
RECURSIVE namedSum(_, _)
namedSum(db, inputs) ==
    IF inputs = <<>> THEN 0
    ELSE sumRows(unspentAt(db, Head(inputs))) + namedSum(db, Tail(inputs))

\* the rows a transaction's inputs name in the store `db`
namedRows(db, t) == UNION {rowsAt(db, t.inputs[i]) : i \in 1..Len(t.inputs)}

\* C5: for every regular transaction of an accepted block, the UTXOs it spends
\* were unspent and their values sum to the sum of its outputs; a regular
\* transaction whose input sum differs from its output sum makes the block
\* fail with InvalidInputOutputSum.
C5_Conservation ==
    returnedBlock =>
        \A k \in 1..Len(blk.transactions) :
            LET t == blk.transactions[k]
            IN  isRegular(t) =>
                  /\ res.error = "Ok" =>
                        /\ \A r \in namedRows(pre, t) : ~r.spent
                        /\ sumRows(namedRows(pre, t)) = sumValues(t.outputs)
                  /\ (heightFits /\ namedSum(pre, t.inputs) # sumValues(t.outputs))
                        => res.error = "InvalidInputOutputSum"

\* an accepted block with a regular transaction that spent a UTXO of value > 0
C5_Witness ==
    /\ returnedBlock
    /\ res.error = "Ok"
    /\ \E k \in 1..Len(blk.transactions) :
          /\ isRegular(blk.transactions[k])
          /\ sumValues(blk.transactions[k].outputs) > 0
          /\ \A r \in namedRows(utxos, blk.transactions[k]) : r.spent

\* C6: a non-coinbase input naming a (txId, index) that is absent from the store
\* or already spent makes processBlock return InvalidInputOutputSum; an accepted
\* block names only rows that were unspent.
C6_MissingOrSpentInput ==
    returnedBlock =>
        \A k \in 1..Len(blk.transactions) :
            \A i \in 1..Len(blk.transactions[k].inputs) :
                LET input == blk.transactions[k].inputs[i]
                IN  ~isCoinbaseInput(input.txId) =>
                      /\ (heightFits /\ unspentAt(pre, input) = {})
                            => res.error = "InvalidInputOutputSum"
                      /\ res.error = "Ok" => unspentAt(pre, input) # {}

\* a block of the right height and id naming a row that is stored but spent was turned down
C6_Witness ==
    /\ returnedBlock
    /\ heightFits
    /\ idFits
    /\ res.error = "InvalidInputOutputSum"
    /\ \E k \in 1..Len(blk.transactions) :
          /\ isRegular(blk.transactions[k])
          /\ \E i \in 1..Len(blk.transactions[k].inputs) :
                /\ rowsAt(pre, blk.transactions[k].inputs[i]) # {}
                /\ unspentAt(pre, blk.transactions[k].inputs[i]) = {}

\* transaction j of the block spends an output that an earlier transaction of
\* the block creates and that the store does not hold
spendsSibling(j) ==
    \E i \in 1..Len(blk.transactions[j].inputs) :
        LET input == blk.transactions[j].inputs[i]
        IN  /\ ~isCoinbaseInput(input.txId)
            /\ unspentAt(pre, input) = {}
            /\ \E e \in 1..(j - 1) :
                  /\ blk.transactions[e].id = input.txId
                  /\ input.index \in 0..(Len(blk.transactions[e].outputs) - 1)

\* C7: a block (of the right height) in which a transaction spends an output
\* created by an earlier transaction of the same block fails with
\* InvalidInputOutputSum and changes nothing.
C7_NoSameBlockSpend ==
    (returnedBlock /\ heightFits /\ \E j \in 1..Len(blk.transactions) : spendsSibling(j))
        => (res.error = "InvalidInputOutputSum" /\ utxos = pre)

\* such a block, its id right and each transaction balanced against its sibling
C7_Witness ==
    /\ returnedBlock
    /\ heightFits
    /\ idFits
    /\ \E j \in 1..Len(blk.transactions) : spendsSibling(j)
    /\ validateCoinbaseTransactions(blk.transactions)
    /\ res.error = "InvalidInputOutputSum"
    /\ utxos = pre

\* C8: a block (of the right height) with a transaction that has a coinbase
\* input and a non-coinbase input is rejected with InvalidInputOutputSum.
C8_MixedInputsRejected ==
    (/\ returnedBlock
     /\ heightFits
     /\ \E k \in 1..Len(blk.transactions) :
           /\ \E i \in 1..Len(blk.transactions[k].inputs) :
                 isCoinbaseInput(blk.transactions[k].inputs[i].txId)
           /\ \E i \in 1..Len(blk.transactions[k].inputs) :
                 ~isCoinbaseInput(blk.transactions[k].inputs[i].txId))
        => res.error = "InvalidInputOutputSum"

\* a mixed transaction whose regular input names an unspent row, alone in a
\* block of the right height and id
C8_Witness ==
    /\ returnedBlock
    /\ heightFits
    /\ idFits
    /\ Len(blk.transactions) = 1
    /\ hasCoinbaseInputs(blk.transactions[1])
    /\ \E i \in 1..Len(blk.transactions[1].inputs) :
          unspentAt(pre, blk.transactions[1].inputs[i]) # {}
    /\ res.error = "InvalidInputOutputSum"

\* the sum of all output values of a block
RECURSIVE blockOutputSum(_)
blockOutputSum(transactions) ==
    IF transactions = <<>> THEN 0
    ELSE sumValues(Head(transactions).outputs) + blockOutputSum(Tail(transactions))

\* C9: a transaction with zero inputs is accepted only if its outputs sum to 0,
\* otherwise the block (of the right height) fails with InvalidInputOutputSum;
\* on an empty store an accepted block whose outputs create value has a
\* coinbase transaction.
C9_ZeroInputZeroSum ==
    returnedBlock =>
        /\ \A k \in 1..Len(blk.transactions) :
              Len(blk.transactions[k].inputs) = 0 =>
                 /\ (heightFits /\ sumValues(blk.transactions[k].outputs) # 0)
                       => res.error = "InvalidInputOutputSum"
                 /\ res.error = "Ok" => sumValues(blk.transactions[k].outputs) = 0
        /\ (pre = {} /\ res.error = "Ok" /\ blockOutputSum(blk.transactions) > 0)
              => \E k \in 1..Len(blk.transactions) :
                    \E i \in 1..Len(blk.transactions[k].inputs) :
                        isCoinbaseInput(blk.transactions[k].inputs[i].txId)

\* a first block of the right id whose only transaction has no input and output sum 1
C9_Witness ==
    /\ returnedBlock
    /\ pre = {}
    /\ heightFits
    /\ idFits
    /\ Len(blk.transactions) = 1
    /\ Len(blk.transactions[1].inputs) = 0
    /\ sumValues(blk.transactions[1].outputs) # 0
    /\ res.error = "InvalidInputOutputSum"


\* a transaction whose inputs (at least one) are all coinbase inputs
isCoinbaseTx(t) ==
    /\ Len(t.inputs) >= 1
    /\ \A i \in 1..Len(t.inputs) : isCoinbaseInput(t.inputs[i].txId)

\* the block served is made of coinbase transactions only, its height and id right
coinbaseBlock ==
    /\ returnedBlock
    /\ heightFits
    /\ idFits
    /\ Len(blk.transactions) >= 1
    /\ \A k \in 1..Len(blk.transactions) : isCoinbaseTx(blk.transactions[k])

\* every output of the block is a row of the store, unspent, at the block's height
outputsInserted ==
    \A k \in 1..Len(blk.transactions) :
        \A i \in 1..Len(blk.transactions[k].outputs) :
            \E r \in utxos :
                /\ txidEq(impl, r.txid, blk.transactions[k].id)
                /\ r.vout = i - 1
                /\ r.address = blk.transactions[k].outputs[i].address
                /\ r.value = blk.transactions[k].outputs[i].value
                /\ r.blockHeight = blk.height
                /\ ~r.spent

\* no output of the block has the (txid, vout) of a stored row or of an output
\* of another transaction of the block, and the ids fit the txid column
outputKeysFresh ==
    /\ \A k \in 1..Len(blk.transactions) :
          /\ ~tooLong(blk.transactions[k].id)
          /\ \A i \in 1..Len(blk.transactions[k].outputs) :
                rowsAt(pre, in(blk.transactions[k].id, i - 1)) = {}
    /\ \A k \in 1..Len(blk.transactions) : \A j \in 1..Len(blk.transactions) :
          (k # j /\ blk.transactions[k].outputs # <<>> /\ blk.transactions[j].outputs # <<>>)
             => ~txidEq(impl, bpchar(blk.transactions[k].id), blk.transactions[j].id)

\* C10 as stated: a block of coinbase transactions with the right height and id
\* is accepted for any output values, all outputs are inserted and no stored row
\* is touched.
C10_CoinbaseAlwaysAccepted ==
    coinbaseBlock => (res.error = "Ok" /\ outputsInserted /\ pre \subseteq utxos)

\* C10 as amended: a coinbase transaction is never turned down by the sum
\* comparison: a block of coinbase transactions with the right height and id is
\* accepted for any output values unless the store refuses an insert
\* (DatabaseError), and it is accepted when no (txid, vout) of its outputs is
\* stored already; once accepted all outputs are inserted and no stored row is
\* touched.  Coinbase inputs are never among the looked-up references.
C10_CoinbaseExempt ==
    /\ coinbaseBlock =>
          /\ res.error \in {"Ok", "DatabaseError"}
          /\ outputKeysFresh => res.error = "Ok"
          /\ res.error = "Ok" => (outputsInserted /\ pre \subseteq utxos)
    /\ returnedBlock =>
          \A i \in 1..Len(inputRefs(blk.transactions)) :
              ~isCoinbaseInput(inputRefs(blk.transactions)[i].txId)

\* a coinbase block accepted on a non-empty store, its outputs summing to more than 0
C10_Witness ==
    /\ coinbaseBlock
    /\ pre # {}
    /\ blockOutputSum(blk.transactions) > 0
    /\ res.error = "Ok"
    /\ outputsInserted
    /\ utxos # pre

\* the block served passed the height and the conservation check
passedHeightAndSum ==
    /\ returnedBlock
    /\ validateHeight(pre, blk.height).error = "Ok"
    /\ validateInputOutputSum(impl, pre, blk).error = "Ok"

\* the transaction ids of a list, in order
txIds(transactions) == [k \in 1..Len(transactions) |-> transactions[k].id]

\* the expected id is the same for every list of transactions with the same ids
\* in the same order, whatever their inputs and outputs, and for every store
idDeterministic ==
    /\ \A txs \in TxLists :
          txIds(txs) = txIds(blk.transactions)
             => expectedHash(blk.height, txs) = expectedHash(blk.height, blk.transactions)
    /\ validateBlockId(pre, blk).error = validateBlockId({}, blk).error

\* C11 as stated: a block that passes the height and conservation checks is
\* accepted iff block.id is the hash of the height and the padded transaction ids
\* in order, otherwise InvalidBlockId; the expected id depends on nothing else.
C11_AcceptedIffId ==
    passedHeightAndSum =>
        /\ (res.error = "Ok") <=> idFits
        /\ ~idFits => res.error = "InvalidBlockId"
        /\ idDeterministic

\* C11 as amended: a block that passes the height and conservation checks is
\* turned down with InvalidBlockId iff block.id differs from the hash of the
\* height and the padded transaction ids in order; with the right id it goes on
\* to the apply phase, which accepts it or fails with UTXONotFound or
\* DatabaseError; the expected id depends on the height and the ordered
\* transaction ids only.
C11_BlockIdCheck ==
    passedHeightAndSum =>
        /\ (res.error = "InvalidBlockId") <=> ~idFits
        /\ res.error = "Ok" => idFits
        /\ idFits => res.error \in {"Ok", "UTXONotFound", "DatabaseError"}
        /\ idFits => res.error = processTransactions(impl, pre, blk, 1).error
        /\ idDeterministic

\* a block whose id hashes its transaction ids back to front was turned down,
\* and another list of transactions has the same ids in the same order
C11_Witness ==
    /\ passedHeightAndSum
    /\ blk.id = expectedHash(blk.height, Reverse(blk.transactions))
    /\ ~idFits
    /\ res.error = "InvalidBlockId"
    /\ \E txs \in TxLists :
          txs # blk.transactions /\ txIds(txs) = txIds(blk.transactions)

\* C12: the tip after a processBlock call differs from the tip before the call
\* only if the call returned Ok; a call that ends in an error, from validation
\* or from the apply phase, leaves the tip unchanged.
C12_TipAdvancesOnlyOnDone ==
    returnedBlock =>
        (getMaxBlockHeight(utxos) # getMaxBlockHeight(pre) => res.error = "Ok")

\* the request just served
target == req.targetHeight
tip(db) == getMaxBlockHeight(db)

\* C13: rollbackToHeight(target) returns InvalidRollbackHeight when target < 0 or
\* target > tip(), and only then, and in both cases leaves the store unchanged.
C13_InvalidRollbackHeight ==
    returnedRollback =>
        /\ (target < 0 \/ target > tip(pre))
              => (res.error = "InvalidRollbackHeight" /\ utxos = pre)
        /\ res.error = "InvalidRollbackHeight"
              => (target < 0 \/ target > tip(pre))

\* a rollback to a height above the tip of a non-empty chain was turned down
C13_Witness ==
    /\ returnedRollback
    /\ pre # {}
    /\ target > tip(pre)
    /\ res.error = "InvalidRollbackHeight"
    /\ utxos = pre

unspentRow(r) == [r EXCEPT !.spent = FALSE, !.spentTxid = NULL, !.spentAt = NULL]

\* C15: after rollbackToHeight(t) returns Ok no row with block_height > t
\* remains; every row with block_height <= t is still there with txid, vout,
\* address, value and block_height unchanged; every row that a transaction of a
\* removed block marked spent (a row spent now and unspent when the chain stood
\* at height t) is unspent with spent_txid and spent_at cleared; rolling back to
\* 0 on a non-empty chain empties the store.
C15_RollbackPostcondition ==
    (returnedRollback /\ res.error = "Ok") =>
        /\ \A r \in utxos : r.blockHeight <= target
        /\ \A r \in pre :
              r.blockHeight <= target =>
                 \E q \in utxos : unspentRow(q) = unspentRow(r)
        /\ (track /\ target <= Len(snaps)) =>
              \A r \in pre :
                  (r.blockHeight <= target /\ r.spent /\ unspentRow(r) \in snapAt(target))
                     => unspentRow(r) \in utxos
        /\ (target = 0 /\ pre # {}) => utxos = {}

\* the values the rows of a set carry, each times the number of rows carrying it
RECURSIVE weightedCount(_, _)
weightedCount(rows, values) ==
    IF values = {} THEN 0
    ELSE LET v == CHOOSE x \in values : TRUE
         IN  v * Cardinality({r \in rows : r.value = v})
             + weightedCount(rows, values \ {v})

\* the sum of value over the stored rows with address a and spent = false
unspentTotal(db, a) ==
    LET rows == {r \in db : r.address = a /\ r.spent = FALSE}
    IN  weightedCount(rows, {r.value : r \in rows})

returnedBalance == pc = "returned" /\ req.op = "getBalance"

\* C16: with no write request in flight, getBalance(a) is the sum of value over
\* the stored UTXOs with address a and spent = false, and 0, not an error, for
\* an address with no such UTXO, after any sequence of ingests and rollbacks.
C16_BalanceIdentity ==
    returnedBalance =>
        /\ res.error = "Ok"
        /\ res.balance = unspentTotal(utxos, req.address)
        /\ {r \in utxos : r.address = req.address /\ ~r.spent} = {} => res.balance = 0
        /\ utxos = pre

\* the balance of an address that has a spent row of value 1 and unspent rows
C16_Witness ==
    /\ returnedBalance
    /\ \E r \in utxos : r.address = req.address /\ r.spent /\ r.value = 1
    /\ \E r \in utxos : r.address = req.address /\ ~r.spent /\ r.value = 1
    /\ res.balance >= 1

-----------------------------------------------------------------------------
(* Properties of the concurrent handlers                                    *)

holders == {w \in Writers : holds(w)}
waiting(w) == writers[w].pc = "waiting"

\* C17: at every moment at most one caller holds the gate; an acquire issued
\* while the gate is held returns no release function until the holder has
\* called release (a waiter goes on only once nobody else holds the gate).
C17_MutualExclusion ==
    /\ Cardinality(holders) <= 1
    /\ gate.locked <=> holders # {}
    /\ \A w \in Writers : waiting(w) => \E h \in holders : h # w
    /\ \A i \in 1..Len(gate.queue) : waiting(gate.queue[i])

\* one request holds the gate in its apply phase while another waits for it
C17_Witness ==
    \E h \in Writers : \E w \in Writers :
        h # w /\ writers[h].pc = "apply" /\ waiting(w) /\ gate.queue = <<w>>

\* one write request served on its own: the whole service call on the store db
serve(db, r) ==
    IF GateRequests[r].op = "processBlock"
    THEN processBlock(impl, db, GateRequests[r].block)
    ELSE rollbackToHeight(impl, db, GateRequests[r].targetHeight)

\* the store after serving, one after another, the first k requests that
\* acquired the gate
RECURSIVE serialStore(_)
serialStore(k) ==
    IF k = 0 THEN {} ELSE serve(serialStore(k - 1), writers[order[k]].req).db

\* the store after the first n repository calls of an apply phase
RECURSIVE applyPrefix(_, _, _)
applyPrefix(db, ops, n) ==
    IF n = 0 THEN db ELSE applyOp(impl, applyPrefix(db, ops, n - 1), ops[n]).db

\* the store as the request holding the gate has left it so far
inFlightStore(w) ==
    LET base == serialStore(Len(order) - 1)
        r == GateRequests[writers[w].req]
    IN  CASE writers[w].pc = "apply" ->
                applyPrefix(base, applyOps(r.block.transactions, r.block.height),
                            writers[w].n - 1)
          [] writers[w].pc = "deleteUTXOsByBlockHeight" ->
                unmarkAsSpent(impl, base,
                    {u.txid : u \in findUTXOsByBlockHeight(base, r.targetHeight)})
          [] writers[w].pc = "release" -> serve(base, writers[w].req).db
          [] OTHER -> base

\* C18: every store mutation is made by a /blocks or /rollback request that
\* holds the gate, so the store operations of two write requests never
\* interleave and the writers take effect in the order in which they acquired
\* the gate: the store is always the one left by serving the earlier holders
\* one after another and then the calls the current holder has made so far, and
\* every result is the one of the request served alone in that order.
C18_GatedWrites ==
    /\ \A w \in holders : gate.locked /\ order # <<>> /\ w = order[Len(order)]
    /\ \A w \in holders : utxos = inFlightStore(w)
    /\ holders = {} => utxos = serialStore(Len(order))
    /\ \A k \in 1..Len(order) :
          writers[order[k]].pc \in {"release", "done"}
             => writers[order[k]].res = serve(serialStore(k - 1), writers[order[k]].req).error
    /\ \A w \in Writers :
          writers[w].res \in {"MutexTimeout", "InvalidTtl"}
             => \A k \in 1..Len(order) : order[k] # w

\* a rollback that waited for a block is in its apply phase, the block's rows stored
C18_Witness ==
    \E w \in holders :
        /\ writers[w].pc = "deleteUTXOsByBlockHeight"
        /\ Len(order) >= 2
        /\ w = order[Len(order)]
        /\ utxos # {}
        /\ writers[order[1]].res = "Ok"

allDone == \A w \in Writers : writers[w].pc = "done"

\* every request is a /blocks request that went for the gate
allBlocks ==
    \A w \in Writers :
        /\ GateRequests[writers[w].req].op = "processBlock"
        /\ writers[w].res # "InvalidTtl"

\* the successful requests in the order in which they acquired the gate
succeeded == SelectSeq(order, LAMBDA w : writers[w].res = "Ok")

\* the store after serving the successful requests alone, one after another
RECURSIVE replay(_)
replay(k) == IF k = 0 THEN {} ELSE serve(replay(k - 1), writers[succeeded[k]].req).db

\* C19: once N concurrent /blocks requests that contended for the gate (blocks
\* of one valid chain, in any mix) are all
\* answered, the first request to acquire the gate with the height the
\* pre-state expects has succeeded, seeing the pre-state; every other request
\* has succeeded (in acquisition order) or failed with InvalidBlockHeight or
\* MutexTimeout; and the final store is the result of applying the successful
\* requests one after another in gate-acquisition order.
C19_SingleWriter ==
    (allDone /\ allBlocks) =>
        /\ order # <<>>
        /\ \A k \in 1..Len(order) :
              (/\ GateRequests[writers[order[k]].req].block.height = 1
               /\ \A j \in 1..(k - 1) :
                     GateRequests[writers[order[j]].req].block.height # 1)
                 => (writers[order[k]].res = "Ok" /\ succeeded[1] = order[k])
        /\ \A w \in Writers :
              writers[w].res \in {"Ok", "InvalidBlockHeight", "MutexTimeout"}
        /\ \A k \in 1..Len(succeeded) :
              serve(replay(k - 1), writers[succeeded[k]].req).error = "Ok"
        /\ utxos = replay(Len(succeeded))

\* three requests for the same first block: one accepted, one turned down for
\* its height, one timed out
C19_Witness ==
    /\ allDone
    /\ allBlocks
    /\ \A w \in Writers : writers[w].req = 1
    /\ \E a \in Writers : \E b \in Writers : \E c \in Writers :
          /\ writers[a].res = "Ok"
          /\ writers[b].res = "InvalidBlockHeight"
          /\ writers[c].res = "MutexTimeout"
    /\ utxos # {}

\* the balances of address a in the store before and after the request that
\* holds the gate; with nobody holding it, the balance in the store
quiescentBalances(a) ==
    IF holders = {} THEN {getBalance(utxos, a)}
    ELSE { getBalance(serialStore(Len(order) - 1), a),
           getBalance(serve(serialStore(Len(order) - 1),
                            writers[order[Len(order)]].req).db, a) }

\* C20: a getBalance call running while a processBlock or rollbackToHeight is
\* in flight returns the balance of the writer's pre-state or of its post-state,
\* never a value that exists only in a partially applied block or rollback.
C20_NoTornRead ==
    [][(reader.pc = "idle" /\ reader'.pc = "done")
          => reader'.balance \in quiescentBalances(reader'.address)]_vars

\* w made no repository call and is not, and never was, holder or waiter
untouched(w) ==
    /\ writers[w].pc = "done"
    /\ writers[w].n = 0
    /\ writers[w].txIds = {}
    /\ ~holds(w)
    /\ \A k \in 1..Len(order) : order[k] # w
    /\ \A k \in 1..Len(gate.queue) : gate.queue[k] # w
    /\ \A k \in 1..Len(asked) : asked[k] # w

\* C21: an acquire whose ttl runs out while the gate is held returns
\* MutexTimeout (answered 408): the request that timed out is over, it has made
\* and makes no store read or write, it has never held the gate, it is no longer
\* among the waiters and so does not become the holder at a later release.
C21_GateTimeout ==
    \A w \in Writers :
        writers[w].res = "MutexTimeout" =>
            /\ writers[w].pc = "done"
            /\ writers[w].n = 0 /\ writers[w].txIds = {}
            /\ ~holds(w)
            /\ \A k \in 1..Len(order) : order[k] # w
            /\ \A k \in 1..Len(gate.queue) : gate.queue[k] # w

\* a request timed out, and the gate has since been released to nobody
C21_Witness ==
    /\ \E w \in Writers : writers[w].res = "MutexTimeout"
    /\ \E h \in Writers : writers[h].pc = "done" /\ writers[h].res = "Ok"
    /\ ~gate.locked
    /\ utxos # {}

\* C22: waiters are granted the gate in the order of their acquire calls: of
\* the requests that called acquire and have neither timed out nor released,
\* the one that called first is the holder and all later ones wait, so at a
\* release the next holder is the waiter that called acquire first.
C22_Fifo ==
    /\ asked # <<>> => holds(asked[1])
    /\ \A i \in 2..Len(asked) : waiting(asked[i])
    /\ \A w \in Writers : (holds(w) \/ waiting(w)) => \E i \in 1..Len(asked) : asked[i] = w

\* after a release the first of two waiters holds the gate, the second waits on
C22_Witness ==
    \E h \in Writers : \E w \in Writers :
        /\ asked = <<h, w>>
        /\ holds(h) /\ waiting(w)
        /\ Len(order) = 2 /\ order[2] = h
        /\ writers[order[1]].pc = "done"

\* C25: a /blocks or /rollback request whose x-block-ttl header is not a number
\* or is <= 0 is answered 400 before the gate is touched: it never calls
\* acquire, never holds or waits for the gate and makes no store read or write,
\* so a request about to call acquire has no header or one that is a number
\* throughout; without the header the ttl is the default of 5000 ms.
C25_InvalidTtl ==
    /\ \A w \in Writers : writers[w].res = "InvalidTtl" => untouched(w)
    /\ \A w \in Writers : writers[w].pc = "acquire" => writers[w].unparsed = ""
    /\ timeoutMs("absent") = [isNaN |-> FALSE, n |-> 5000]
    /\ ~ttlInvalid(timeoutMs("absent"))

\* the block_height values present in the store
heights(db) == {r.blockHeight : r \in db}

\* C23: whatever processBlock and rollbackToHeight calls were made, accepted or
\* refused, the block_height values present in the store are exactly 1..tip
\* (none for an empty store), so every record has block_height >= 1.
C23_HeightContiguity ==
    /\ heights(utxos) = 1..getMaxBlockHeight(utxos)
    /\ \A r \in utxos : r.blockHeight >= 1

\* a rollback has removed the top block of a store three blocks high
C23_Witness ==
    /\ returnedRollback
    /\ res.error = "Ok"
    /\ heights(pre) = {1, 2, 3}
    /\ heights(utxos) = {1, 2}

\* C24: a store failure during processBlock or rollbackToHeight, in the tip
\* query and the UTXO lookup of the validation too, is returned as DatabaseError
\* and answered with HTTP 500.
C24_StoreFailureIsDatabaseError ==
    (pc = "returned" /\ res.failed # "none") =>
        /\ res.error = "DatabaseError"
        /\ getErrorStatusCode(res.error) = 500

\* C26: with one write request served at a time, no processBlock call returns
\* UTXONotFound: a block that passes the three validation checks has every
\* markAsSpent call of its apply phase succeed, also when two of its inputs
\* name the same UTXO.
C26_ApplyNeverNotFound ==
    returnedBlock => res.error # "UTXONotFound"

\* C28: every txid and spent_txid processBlock writes is the transaction id
\* padded with '0' to 64 characters (cut to 64 if longer), also for ids sent
\* shorter than 64 characters: each row a processBlock call has added carries
\* padTxId of the id of one of the block's transactions, and each row it has
\* marked spent carries padTxId of such an id as spent_txid.
C28_StoredIdsArePad64 ==
    returnedBlock =>
        \A r \in utxos \ pre :
            \E k \in 1..Len(req.block.transactions) :
                LET T == req.block.transactions[k]
                IN  \/ /\ ~r.spent
                       /\ r.txid = padTxId(T.id)
                       /\ r.blockHeight = req.block.height
                    \/ /\ r.spent
                       /\ r.spentTxid = padTxId(T.id)
                       /\ \E old \in pre : old.txid = r.txid /\ old.vout = r.vout

\* row r is the UTXO input names (ids compared as the store compares them)
names(input, r) ==
    /\ ~isCoinbaseInput(input.txId)
    /\ txidEq(impl, r.txid, input.txId)
    /\ r.vout = input.index

\* some input of the block names row r
named(block, r) ==
    \E k \in 1..Len(block.transactions) :
        \E i \in 1..Len(block.transactions[k].inputs) :
            names(block.transactions[k].inputs[i], r)

\* row r2 is row r marked spent by transaction T
spentBy(r2, r, T) ==
    /\ r2 = [r EXCEPT !.spent = TRUE, !.spentTxid = r2.spentTxid, !.spentAt = r2.spentAt]
    /\ r2.spentTxid # NULL /\ txidEq(impl, r2.spentTxid, T.id)
    /\ r2.spentAt # NULL

\* row r is the record of output i of transaction T at the given height
outputRow(r, T, i, height) ==
    /\ txidEq(impl, r.txid, T.id)
    /\ r.vout = i - 1
    /\ r.address = T.outputs[i].address
    /\ r.value = T.outputs[i].value
    /\ r.blockHeight = height
    /\ ~r.spent /\ r.spentTxid = NULL /\ r.spentAt = NULL

\* C27: after processBlock(b) returns Ok, for every transaction T of b each
\* UTXO a non-coinbase input of T names is spent with spent_txid = T's id, for
\* each output i of T the store holds the record (T's id, i, address, value,
\* b.height, unspent), and no other record is added, removed or changed.
C27_ApplyEffect ==
    (returnedBlock /\ res.error = "Ok") =>
        LET b == req.block
        IN  /\ \A k \in 1..Len(b.transactions) :
                  LET T == b.transactions[k]
                  IN  /\ \A i \in 1..Len(T.inputs) :
                            ~isCoinbaseInput(T.inputs[i].txId) =>
                                /\ \E r \in pre : names(T.inputs[i], r)
                                /\ \A r \in pre :
                                      names(T.inputs[i], r) =>
                                          \E r2 \in utxos : spentBy(r2, r, T)
                      /\ \A i \in 1..Len(T.outputs) :
                            \E r \in utxos \ pre : outputRow(r, T, i, b.height)
            /\ \A r \in pre : ~named(b, r) => r \in utxos
            /\ \A r2 \in utxos \ pre :
                  \/ \E r \in pre : \E k \in 1..Len(b.transactions) :
                         named(b, r) /\ spentBy(r2, r, b.transactions[k])
                  \/ \E k \in 1..Len(b.transactions) :
                         \E i \in 1..Len(b.transactions[k].outputs) :
                             outputRow(r2, b.transactions[k], i, b.height)
            /\ Cardinality(utxos) = Cardinality(pre) + Len(applyOps(b.transactions, b.height))
                                       - Cardinality({r \in pre : named(b, r)})

\* an accepted block of two transactions, one spending a stored output
C27_Witness ==
    /\ returnedBlock
    /\ res.error = "Ok"
    /\ Len(req.block.transactions) = 2
    /\ \E r \in pre : named(req.block, r)
    /\ \E r \in utxos \ pre : ~r.spent
    /\ \E r \in pre \cap utxos : TRUE

\* C29: between any two operations every spent UTXO has a spending transaction
\* (its spent_txid) that is the txid of at least one UTXO stored at a height >=
\* the spent UTXO's height; so after a rollback no UTXO is left marked spent by
\* a transaction of a removed block.
C29_SpenderIsStored ==
    pc \in {"idle", "returned"} =>
        \A r \in utxos :
            r.spent =>
                \E q \in utxos : q.txid = r.spentTxid /\ q.blockHeight >= r.blockHeight

\* C30: in every state reachable through processBlock and rollbackToHeight a
\* record has spent = true iff its spent_txid and spent_at are set, and has
\* neither when unspent: rows are inserted unspent, markAsSpent sets the three
\* together and unmarkAsSpent clears the three together.
C30_SpentFieldsTogether ==
    /\ \A r \in utxos :
          /\ r.spent => (r.spentTxid # NULL /\ r.spentAt # NULL)
          /\ ~r.spent => (r.spentTxid = NULL /\ r.spentAt = NULL)
    /\ returnedBlock => \A r \in utxos \ pre : r.spent \/ r = unspentRow(r)

\* a rollback has made a spent row unspent again, next to a row it left spent
C30_Witness ==
    /\ returnedRollback
    /\ res.error = "Ok"
    /\ \E r \in pre : r.spent /\ unspentRow(r) \in utxos
    /\ \E r \in utxos : r.spent

\* some output of the block has the (txid, vout) of row r
outputKeyOf(block, r) ==
    \E k \in 1..Len(block.transactions) :
        \E i \in 1..Len(block.transactions[k].outputs) :
            txidEq(impl, r.txid, block.transactions[k].id) /\ r.vout = i - 1

\* rows r and q are the same record but for the spent columns
sameRecord(r, q) == unspentRow(r) = unspentRow(q)

\* C31: with the repository the core is bound to, an insert of a (txid, vout)
\* already in the store fails with DatabaseError and leaves the stored record
\* as it is: no two records share (txid, vout), a processBlock call with an
\* output whose (txid, vout) is stored does not return Ok, and every record
\* stored before a processBlock call is still stored after it.
C31_UniqueInsert ==
    /\ \A r \in utxos : \A q \in utxos :
          (txidEq(impl, r.txid, q.txid) /\ r.vout = q.vout) => r = q
    /\ returnedBlock =>
          /\ (\E r \in pre : outputKeyOf(req.block, r)) => res.error # "Ok"
          /\ \A r \in pre : \E q \in utxos : sameRecord(r, q)

\* the gate is released behind every request that acquired it and is over
releasedBehind ==
    /\ holders = {} => gate = FreeGate
    /\ \A k \in 1..Len(order) :
          writers[order[k]].pc = "done" =>
              /\ writers[order[k]].res \notin {"none", "MutexTimeout", "InvalidTtl"}
              /\ gate.locked => (k < Len(order) /\ holds(order[Len(order)]))
    /\ allDone => gate = FreeGate

\* C32: every /blocks or /rollback request that acquired the gate releases it
\* when its handler finishes, whatever the service call returned: behind a
\* finished holder the gate is free or held by a later request, it is free
\* whenever no write request holds it, and a waiter whose ttl does not run out
\* eventually holds the gate.
C32_GateReleased ==
    /\ []releasedBehind
    /\ \A w \in Writers :
          waiting(w) ~> (holds(w) \/ writers[w].res = "MutexTimeout")

\* a request that ended with an error is over and the request that waited
\* behind it holds the gate
C32_Witness ==
    \E h \in Writers : \E w \in Writers :
        /\ order = <<h, w>>
        /\ writers[h].pc = "done"
        /\ writers[h].res \notin {"Ok", "none"}
        /\ holds(w)

\* C33: every record in the store has value >= 0, whatever output values the
\* accepted blocks carried, and getBalance never returns a negative number.
C33_ValuesNonNegative ==
    /\ \A r \in utxos : r.value >= 0
    /\ (pc = "returned" /\ req.op = "getBalance") => res.balance >= 0

\* the errors of the three validation checks
validationErrors == {"InvalidBlockHeight", "InvalidInputOutputSum", "InvalidBlockId"}

\* C34 (as stated): whenever processBlock returns an error, the errors of the
\* apply phase included, the store is as it was before the call.
C34_AllOrNothing ==
    (returnedBlock /\ res.error # "Ok") => utxos = pre

\* C34 (amended): a validation error leaves the store as it was before the
\* call; an error of the apply phase (UTXONotFound, DatabaseError) leaves the
\* writes made before the failing repository call in place and nothing else:
\* the store is the one before the call with the first n calls of the apply
\* phase made, the next call being the one that fails with the returned error.
C34_FailedApplyKeepsPrefix ==
    (returnedBlock /\ res.error # "Ok") =>
        LET ops == applyOps(req.block.transactions, req.block.height)
        IN  IF res.error \in validationErrors THEN utxos = pre
            ELSE \E n \in 0..(Len(ops) - 1) :
                    /\ utxos = applyPrefix(pre, ops, n)
                    /\ \A j \in 1..n :
                          applyOp(impl, applyPrefix(pre, ops, j - 1), ops[j]).error = "Ok"
                    /\ applyOp(impl, utxos, ops[n + 1]).error = res.error

\* a block failed in its apply phase after it had marked an input spent and
\* inserted an output
C34_Witness ==
    /\ returnedBlock
    /\ res.error \in {"UTXONotFound", "DatabaseError"}
    /\ \E r \in utxos \ pre : r.spent
    /\ \E r \in utxos \ pre : r.blockHeight = req.block.height

\* C35: after processBlock(b) returns Ok the tip is b.height, so that of
\* several blocks of one height h sent while the tip is h - 1, with no rollback
\* in between, at most one is accepted.
C35_TipIsAcceptedHeight ==
    (returnedBlock /\ res.error = "Ok") => tip(utxos) = req.block.height

C37_KeepsEarlierSpends ==
    (returnedRollback /\ res.error = "Ok" /\ track /\ target \in 0..Len(snaps)) =>
        \A r \in snapAt(target) :
            r.spent =>
                \E q \in utxos :
                    sameRecord(r, q) /\ q.spent /\ q.spentTxid = r.spentTxid

\* the columns of the rows of db that a comparison of stores looks at: txid,
\* vout, address, value, block_height, spent, spent_txid
compared(db) ==
    {[txid |-> r.txid, vout |-> r.vout, address |-> r.address, value |-> r.value,
      blockHeight |-> r.blockHeight, spent |-> r.spent, spentTxid |-> r.spentTxid] :
        r \in db}

\* C38: replay after rollback: after accepted blocks B1..Bn and a successful
\* rollbackToHeight(k), sending B(k+1)..Bn again in order is accepted block by
\* block and gives the store as it was before the rollback. Stated for the
\* last block (k = n - 1): when Bn has just been accepted, a rollback to n - 1
\* that returns Ok followed by Bn again returns Ok and gives the same store.
C38_ReplayAfterRollback ==
    (returnedBlock /\ res.error = "Ok" /\ track) =>
        LET back == rollbackToHeight(impl, utxos, req.block.height - 1)
            again == processBlock(impl, back.db, req.block)
        IN  back.error = "Ok" =>
                /\ again.error = "Ok"
                /\ compared(again.db) = compared(utxos)

\* row r is an output of transaction t (the height and the spent columns aside)
outputOf(t, r) ==
    \E i \in 1..Len(t.outputs) :
        /\ txidEq(impl, r.txid, t.id)
        /\ r.vout = i - 1
        /\ r.address = t.outputs[i].address
        /\ r.value = t.outputs[i].value

\* row r was created by a coinbase transaction: in the catalogue no coinbase
\* transaction shares an output (txid, vout, address, value) with another one
createdByCoinbase(r) ==
    \E k \in 1..Len(Catalogue) : isCoinbaseTx(Catalogue[k]) /\ outputOf(Catalogue[k], r)

\* C39: regular transactions never mint value: after any sequence of
\* processBlock and rollbackToHeight calls, successful or failed, the sum of
\* the values of the unspent records is at most the sum of the values of the
\* stored records that coinbase transactions created.
C39_NoMint ==
    sumRows({r \in utxos : ~r.spent}) <= sumRows({r \in utxos : createdByCoinbase(r)})

====
